---- MODULE Spec2Model ----
(***************************************************************************)
(* Overlay lifecycle of the thumbnail viewer (src/thumbnailViewer.js).     *)
(*                                                                         *)
(* The widget runs on the browser's event loop: one event is dispatched at *)
(* a time and its listeners run to completion.  An event action records    *)
(* the event in ev and puts the listeners to run (the snapshot the DOM     *)
(* takes of the listener list) in todo; the step actions run the head of   *)
(* todo, display() statement group by statement group, until todo is       *)
(* empty again.  No event is dispatched while todo is non-empty.           *)
(*                                                                         *)
(* Overlays are numbered 1, 2, ... in creation order; 0 stands for null /  *)
(* undefined.  A closure created by display (reStyle, handleKeyDown,       *)
(* handleWheel) is identified by the number of the overlay it closes over. *)
(***************************************************************************)
EXTENDS Integers, Sequences, FiniteSets, TLC

\* Largest number of thumbnail links on the page (els.length).
MaxN == 3
\* Largest number of overlays built in one run (caps the overlay counter).
MaxOverlays == 2

\* The longest href the scan of a thumbnail is checked with.
MaxHref == 6

\* Viewport widths are 0, 100, .. 100 * MaxViewport and viewport heights 50
\* and 80, 180, .. 80 + 100 * MaxViewport; the natural width and height of
\* an image are 0, 100, .. 100 * MaxNatural.
MaxViewport == 3

MaxNatural == 2

\* The layout passes made with the same inputs, and the toggles pressed,
\* while one overlay is laid out.
MaxPasses == 2

MaxToggles == 1

\* var reservedHeight = 80;
reservedHeight == 80

\* widthFactor = 0.8 and heightFactor = 0.8, in tenths.
widthFactor == 8

heightFactor == 8

\* topOffset = 1.0, in tenths.
topOffset == 10

VARIABLES
  elsLength,             \* els.length, fixed by the scan
  ovs,                   \* every overlay display() has built, by number
  body,                  \* overlay nodes that are children of document.body
  activeElements,        \* var activeElements
  currentResizeHandler,  \* var currentResizeHandler (0 = null)
  listeners,             \* event listener list of window
  thumbnailViewerReStyle,\* window.thumbnailViewerReStyle (0 = undefined)
  windowFitToScreen,     \* window.fitToScreen: "undefined", "true", "false"
  fitToScreen,           \* var fitToScreen
  todo,                  \* listener invocations / statements still to run
  ev,                    \* the event being (or last) dispatched
  error,                 \* the last event had a listener end in an exception
  placeholder,           \* the 'No images found' placeholder is in the page
  showFilenames,         \* window.show_filenames
  showFolders,           \* window.show_folders
  labelDisplay,          \* style.display of the labels addLabel rendered
  dirDisplay,            \* style.display of the directory-viewer elements
  scan,                  \* one thumbnail link as the scan loop labels it
  layout                 \* the elements of one overlay as style() writes them

vars == <<elsLength, ovs, body, activeElements, currentResizeHandler,
          listeners, thumbnailViewerReStyle, windowFitToScreen, fitToScreen,
          todo, ev, error, placeholder, showFilenames, showFolders,
          labelDisplay, dirDisplay, scan, layout>>

\* The page around the overlay: placeholder, label and folder visibility.
pageVars == <<placeholder, showFilenames, showFolders, labelDisplay,
              dirDisplay>>

\* The inputs and results of the functions checked on their own.
pureVars == <<scan, layout>>

Range(s) == {s[k] : k \in 1..Len(s)}

-----------------------------------------------------------------------------
(* window.addEventListener / removeEventListener                           *)

Listener(type, fn, id) == [type |-> type, fn |-> fn, id |-> id]

\* A listener already in the list (same type and callback) is not added twice.
AddEventListener(ls, l) ==
  IF l \in Range(ls) THEN ls ELSE Append(ls, l)

RemoveEventListener(ls, l) ==
  SelectSeq(ls, LAMBDA x : x # l)

\* The listeners of one type, in registration order.
ListenersOf(ls, type) ==
  SelectSeq(ls, LAMBDA x : x.type = type)

-----------------------------------------------------------------------------
(* Builders                                                                *)

\* getPrev returns an element iff index > 0.
GetPrev(index) == index > 0

\* getNext returns an element iff index < els.length - 1.
GetNextOffByOne(index) == index < elsLength

GetNext(index) == index < elsLength - 1

\* mount: the controls appended below the overall container.
Mount(prev, next) ==
  {"thumbnail-viewer-container", "thumbnail-viewer-image",
   "thumbnail-viewer-caption", "thumbnail-viewer-close"}
    \cup (IF prev THEN {"thumbnail-viewer-prev"} ELSE {})
    \cup (IF next THEN {"thumbnail-viewer-next"} ELSE {})

\* e.style.display = window.show_filenames ? '' : 'none'
CaptionDisplay(show) == IF show THEN "" ELSE "none"

\* The elements display(index) builds before mounting them: index is the
\* parameter the closures capture, image the thumbnail whose href is the
\* image's src.
NewOverlay(index) ==
  [index      |-> index,
   image      |-> index,
   caption    |-> CaptionDisplay(showFilenames),
   prev       |-> GetPrev(index),
   next       |-> GetNext(index),
   children   |-> {},
   visibility |-> "",
   mode       |-> "none",
   load       |-> "none",
   cleanupNav |-> FALSE]

-----------------------------------------------------------------------------
(* Layout                                                                  *)

\* (typeof window.fitToScreen !== 'undefined') ? window.fitToScreen : false
ReadFitToScreen(w) == w = "true"

\* window.fitToScreen = !window.fitToScreen
ToggleFitToScreen(w) == IF w = "true" THEN "false" ELSE "true"

\* style: the layout mode applied to the image.
Style(fit) == IF fit THEN "fit" ELSE "bounded"

\* reStyle of overlay id: the overlays after the layout pass, w and show
\* being window.fitToScreen and window.show_filenames at that time.  The
\* first definition is reStyle without the re-read of window.fitToScreen.
ReStyleStale(o, id, w, show) ==
  [o EXCEPT ![id].mode = Style(fitToScreen),
            ![id].caption = CaptionDisplay(show)]

\* reStyle that also hides every overlay but its own.
ReStyleHidingOthers(o, id, w, show) ==
  [k \in DOMAIN o |->
     IF k = id
     THEN [o[k] EXCEPT !.mode = Style(ReadFitToScreen(w)),
                       !.caption = CaptionDisplay(show)]
     ELSE [o[k] EXCEPT !.visibility = "hidden"]]

ReStyle(o, id, w, show) ==
  [o EXCEPT ![id].mode = Style(ReadFitToScreen(w)),
            ![id].caption = CaptionDisplay(show)]

-----------------------------------------------------------------------------
(* Labels                                                                  *)

\* addLabel: the style.display the label ends with.  show is
\* window.show_filenames, under is nameUnderThumbs, truncate is truncateNames.
AddLabelDisplay(show, under, truncate) ==
  LET first == IF show THEN "" ELSE "none" IN
  IF under THEN (IF truncate THEN "block" ELSE "block") ELSE first

\* The keydown toggle listener's update of every label.
ToggleLabelDisplay(show) == IF show THEN "" ELSE "none"

\* d.style.setProperty('display', show_folders ? 'inline-block' : 'none')
DirDisplay(show) == IF show THEN "inline-block" ELSE "none"

\* Strings are sequences of characters.  Chars is the alphabet the URLs of
\* the model are written in: a letter, the path separator and what a
\* percent-escape is made of.
Chars == {"s", "/", "%", "2", "0"}

Strs(n) == UNION {[1..k -> Chars] : k \in 0..n}

\* The characters %00, %02, %20 and %22 stand for.
Unescape ==
  (<<"0", "0">> :> "NUL") @@ (<<"0", "2">> :> "STX")
    @@ (<<"2", "0">> :> " ") @@ (<<"2", "2">> :> "\"")

\* decodeURIComponent(u): ok is FALSE where it throws URIError, which it
\* does at a % that is not followed by two hexadecimal digits.
RECURSIVE DecodeURIComponent(_)
DecodeURIComponent(u) ==
  IF u = <<>> THEN [ok |-> TRUE, out |-> <<>>]
  ELSE IF Head(u) # "%"
  THEN LET r == DecodeURIComponent(Tail(u)) IN
       [ok |-> r.ok, out |-> <<Head(u)>> \o r.out]
  ELSE IF Len(u) >= 3 /\ <<u[2], u[3]>> \in DOMAIN Unescape
  THEN LET r == DecodeURIComponent(SubSeq(u, 4, Len(u))) IN
       [ok |-> r.ok, out |-> <<Unescape[<<u[2], u[3]>>]>> \o r.out]
  ELSE [ok |-> FALSE, out |-> <<>>]

\* u.lastIndexOf(c): the greatest 0-based index of c in u, or -1.
LastIndexOf(u, c) ==
  LET at == {k \in 1..Len(u) : u[k] = c} IN
  IF at = {} THEN -1 ELSE (CHOOSE k \in at : \A j \in at : j <= k) - 1

\* u.substring(from), for 0 <= from <= u.length.
Substring(u, from) == SubSeq(u, from + 1, Len(u))

\* cleanUrl = url.endsWith('/') ? url.slice(0, -1) : url.  The first
\* definition keeps the trailing slash.
CleanUrlKeep(url) == url

CleanUrl(url) ==
  IF Len(url) > 0 /\ url[Len(url)] = "/"
  THEN SubSeq(url, 1, Len(url) - 1)
  ELSE url

\* The body of the scan loop up to addLabel, for one thumbnail link: hasImg
\* says it contains an img, alt is that img's alt, hasHref says it has an
\* href attribute.  label is labelName, added says addLabel was called,
\* thrown that decodeURIComponent threw.
LabelName(hasImg, alt, hasHref, href) ==
  IF hasImg /\ alt # <<>>
  THEN [label |-> alt, added |-> TRUE, thrown |-> FALSE]
  ELSE IF hasHref /\ href # <<>>
  THEN LET cleanUrl == CleanUrl(href)
           d == DecodeURIComponent(
                  Substring(cleanUrl, LastIndexOf(cleanUrl, "/") + 1))
       IN [label |-> d.out, added |-> d.ok /\ d.out # <<>>,
           thrown |-> ~d.ok]
  ELSE [label |-> <<>>, added |-> FALSE, thrown |-> FALSE]

\* The values scan and layout hold while the widget itself is modelled.
NoScan == [hasImg |-> FALSE, alt |-> <<>>, hasHref |-> FALSE, href |-> <<>>,
           label |-> <<>>, added |-> FALSE, thrown |-> FALSE, done |-> FALSE]

NoLayout == [passes |-> 0]

-----------------------------------------------------------------------------
(* style                                                                   *)

\* Style values.  A length of n/10 px, and a keyword or literal.
Px(n) == [u |-> "px", v |-> n]

Kw(k) == [u |-> k, v |-> 0]

\* NaN + 'px', what the sum of a number that is NaN and 'px' is.
NaNPx == [u |-> "NaNpx", v |-> 0]

\* isNaN(window.innerWidth), isNaN(window.innerHeight): in.nan holds the
\* names of the viewport metrics that are NaN.
IsNaN(in, metric) == metric \in in.nan

\* A value built from invZoom = 1 / zoom, kept in tenths.
Inv(u, zoom) == [u |-> u, v |-> 10 \div zoom]

\* var zoom = window.devicePixelRatio || 1;
Zoom(devicePixelRatio) ==
  IF devicePixelRatio = 0 THEN 1 ELSE devicePixelRatio

\* imgRatio > screenRatio, each ratio a pair <<numerator, denominator>> with
\* a positive denominator, 0 being <<0, 1>>.  The first definition has >=.
FitWidthNotStrict(nw, nh, clientWidth, availableHeight) ==
  LET imgRatio == IF nw # 0 /\ nh # 0 THEN <<nw, nh>> ELSE <<0, 1>>
      screenRatio == IF availableHeight > 0
                     THEN <<clientWidth, availableHeight>> ELSE <<0, 1>>
  IN imgRatio[1] * screenRatio[2] >= screenRatio[1] * imgRatio[2]

FitWidth(nw, nh, clientWidth, availableHeight) ==
  LET imgRatio == IF nw # 0 /\ nh # 0 THEN <<nw, nh>> ELSE <<0, 1>>
      screenRatio == IF availableHeight > 0
                     THEN <<clientWidth, availableHeight>> ELSE <<0, 1>>
  IN imgRatio[1] * screenRatio[2] > screenRatio[1] * imgRatio[2]

\* What style assigns to the image and the figure when fitToScreen is true.
\* With clientHeight NaN, availableHeight is NaN, availableHeight > 0 is
\* false and screenRatio is 0; with clientWidth NaN and availableHeight > 0,
\* screenRatio is NaN and imgRatio > screenRatio is false.  None of the
\* assignments is guarded.
FitWrites(in) ==
  LET heightNaN == IsNaN(in, "innerHeight")
      widthNaN == IsNaN(in, "innerWidth")
      availableHeight == in.innerHeight - reservedHeight
      availablePx == IF heightNaN THEN NaNPx ELSE Px(10 * availableHeight)
      wider ==
        IF heightNaN
        THEN FitWidth(in.naturalWidth, in.naturalHeight, 0, 0)
        ELSE IF widthNaN
        THEN availableHeight <= 0
               /\ FitWidth(in.naturalWidth, in.naturalHeight, 0,
                           availableHeight)
        ELSE FitWidth(in.naturalWidth, in.naturalHeight, in.innerWidth,
                      availableHeight)
  IN
  (IF wider
   THEN ("image.width" :> Kw("100%")) @@ ("image.height" :> Kw("auto"))
   ELSE ("image.width" :> Kw("auto")) @@ ("image.height" :> availablePx))
    @@ ("image.maxWidth" :> Kw("100%"))
    @@ ("image.maxHeight" :> availablePx)
    @@ ("image.objectFit" :> Kw("contain"))
    @@ ("figure.maxWidth" :> Kw("100%"))
    @@ ("figure.maxHeight" :> availablePx)

\* No assignment.
Skip == [q \in {} |-> Kw("")]

\* What style assigns to the image when fitToScreen is false: maxWidth and
\* maxHeight only if (!isNaN(clientWidth)), if (!isNaN(clientHeight)).
BoundedWrites(in) ==
  ("image.width" :> Kw("")) @@ ("image.height" :> Kw(""))
    @@ (IF IsNaN(in, "innerWidth") THEN Skip
        ELSE "image.maxWidth" :> Px(in.innerWidth * widthFactor))
    @@ (IF IsNaN(in, "innerHeight") THEN Skip
        ELSE "image.maxHeight" :> Px(in.innerHeight * heightFactor))

\* What style assigns to the container, the figure, the close control and
\* the caption.
FrameWrites(in) ==
  (IF IsNaN(in, "innerHeight") THEN Skip
   ELSE "overall.height" :> Px(10 * in.innerHeight))
    @@ ("overall.position" :> Kw("fixed")) @@ ("overall.margin" :> Kw("0"))
    @@ ("overall.top" :> Kw("0")) @@ ("overall.left" :> Kw("0"))
    @@ ("overall.width" :> Kw("100%")) @@ ("overall.display" :> Kw("flex"))
    @@ ("overall.justifyContent" :> Kw("center"))
    @@ ("overall.alignItems" :> Kw("center"))
    @@ ("figure.margin" :> Kw("0")) @@ ("figure.position" :> Kw("relative"))
    @@ ("figure.display" :> Kw("inline-block"))
    @@ ("figure.width" :> Kw("auto")) @@ ("figure.height" :> Kw("auto"))
    @@ (IF topOffset # 10
        THEN "figure.top" :>
               (IF IsNaN(in, "innerHeight") THEN NaNPx
                ELSE Px((in.innerHeight * (topOffset - 10)) \div 2))
        ELSE Skip)
    @@ ("close.position" :> Kw("absolute")) @@ ("close.top" :> Kw("0"))
    @@ ("close.right" :> Kw("0"))
    @@ ("close.transform" :> Inv("scale", Zoom(in.devicePixelRatio)))
    @@ ("close.transformOrigin" :> Kw("top right"))
    @@ ("caption.--inv-zoom" :> Inv("", Zoom(in.devicePixelRatio)))
    @@ ("caption.display" :> Kw(CaptionDisplay(in.show)))

\* What style assigns to the control el ("prev" or "next"), which is on
\* the side side ("left" or "right"), when the overlay has it.
NavWrites(in, el, side, has) ==
  IF has
  THEN ((el \o ".position") :> Kw("absolute"))
         @@ ((el \o ".top") :> Kw("50%"))
         @@ ((el \o "." \o side) :>
               [u |-> "px", v |-> 200 \div Zoom(in.devicePixelRatio)])
         @@ ((el \o ".transform") :>
               Inv("scale translateY(-50%)", Zoom(in.devicePixelRatio)))
         @@ ((el \o ".transformOrigin") :> Kw(side \o " center"))
         @@ ((el \o ".marginTop") :> Kw("0"))
  ELSE Skip

\* style(overall, figure, image, caption, close, prev, next): the
\* assignments of one pass, as a function from the properties assigned to
\* the values.
StyleWrites(in) ==
  FrameWrites(in)
    @@ (IF in.fit THEN FitWrites(in) ELSE BoundedWrites(in))
    @@ NavWrites(in, "prev", "left", in.prev)
    @@ NavWrites(in, "next", "right", in.next)

\* The inline styles after the assignments w have been made to styles st.
\* The first definition assigns only the properties that are not yet set.
AssignUnset(st, w) == st @@ w

Assign(st, w) == w @@ st

\* No inline style: the elements as the builders leave them.
NoStyle == Skip

-----------------------------------------------------------------------------
(* Teardown                                                                *)

\* overall._cleanupNav of overlay id.
CleanupNavNone(ls, id) == ls

CleanupNavKeyOnly(ls, id) ==
  RemoveEventListener(ls, Listener("keydown", "handleKeyDown", id))

CleanupNav(ls, id) ==
  RemoveEventListener(
    RemoveEventListener(ls, Listener("keydown", "handleKeyDown", id)),
    Listener("wheel", "handleWheel", id))

RemoveChild(bd, el) == SelectSeq(bd, LAMBDA x : x # el)

\* The for loop of clearActiveElements from position i on; removeChild of a
\* node that is no child of document.body throws and ends the function.
RECURSIVE ClearLoop(_, _, _, _)
ClearLoop(ae, i, bd, ls) ==
  IF i > Len(ae) THEN [body |-> bd, listeners |-> ls, error |-> FALSE]
  ELSE LET el  == ae[i]
           ls2 == IF ovs[el].cleanupNav THEN CleanupNav(ls, el) ELSE ls
       IN IF el \notin Range(bd)
          THEN [body |-> bd, listeners |-> ls2, error |-> TRUE]
          ELSE ClearLoop(ae, i + 1, RemoveChild(bd, el), ls2)

\* clearActiveElements that forgets to empty the list.
ClearActiveElementsKeepList(ae, bd, ls, crh) ==
  LET r == ClearLoop(ae, 1, bd, ls) IN
  IF r.error
  THEN [activeElements |-> ae, body |-> r.body, listeners |-> r.listeners,
        currentResizeHandler |-> crh, error |-> TRUE]
  ELSE [activeElements |-> ae, body |-> r.body,
        listeners |-> IF crh # 0
                      THEN RemoveEventListener(r.listeners,
                                               Listener("resize", "reStyle", crh))
                      ELSE r.listeners,
        currentResizeHandler |-> 0, error |-> FALSE]

\* clearActiveElements that leaves the resize listener registered.
ClearActiveElementsKeepResize(ae, bd, ls, crh) ==
  LET r == ClearLoop(ae, 1, bd, ls) IN
  IF r.error
  THEN [activeElements |-> ae, body |-> r.body, listeners |-> r.listeners,
        currentResizeHandler |-> crh, error |-> TRUE]
  ELSE [activeElements |-> <<>>, body |-> r.body, listeners |-> r.listeners,
        currentResizeHandler |-> 0, error |-> FALSE]

ClearActiveElements(ae, bd, ls, crh) ==
  LET r == ClearLoop(ae, 1, bd, ls) IN
  IF r.error
  THEN [activeElements |-> ae, body |-> r.body, listeners |-> r.listeners,
        currentResizeHandler |-> crh, error |-> TRUE]
  ELSE [activeElements |-> <<>>, body |-> r.body,
        listeners |-> IF crh # 0
                      THEN RemoveEventListener(r.listeners,
                                               Listener("resize", "reStyle", crh))
                      ELSE r.listeners,
        currentResizeHandler |-> 0, error |-> FALSE]

\* clearActiveElements applied to the current state.
Cleared == ClearActiveElements(activeElements, body, listeners,
                               currentResizeHandler)

-----------------------------------------------------------------------------
(* Navigation handlers: what one invocation does.                          *)

Outcome(prevent, call, index) ==
  [prevent |-> prevent, call |-> call, index |-> index]

\* handleKeyDown without the Escape branch.
HandleKeyDownNoEscape(code, index) ==
  IF code \in {"PageUp", "ArrowLeft"}
  THEN IF index > 0 THEN Outcome(TRUE, "display", index - 1)
                    ELSE Outcome(TRUE, "none", 0)
  ELSE IF code \in {"PageDown", "ArrowRight"}
  THEN IF index < elsLength - 1 THEN Outcome(TRUE, "display", index + 1)
                                ELSE Outcome(TRUE, "none", 0)
  ELSE Outcome(FALSE, "none", 0)

\* handleKeyDown without the bounds checks.
HandleKeyDownNoBounds(code, index) ==
  IF code \in {"PageUp", "ArrowLeft"}
  THEN Outcome(TRUE, "display", index - 1)
  ELSE IF code \in {"PageDown", "ArrowRight"}
  THEN Outcome(TRUE, "display", index + 1)
  ELSE IF code = "Escape" THEN Outcome(TRUE, "clear", 0)
  ELSE Outcome(FALSE, "none", 0)

\* handleKeyDown that closes the overlay on any key it does not navigate by.
HandleKeyDownOtherCloses(code, index) ==
  IF code \in {"PageUp", "ArrowLeft"}
  THEN IF index > 0 THEN Outcome(TRUE, "display", index - 1)
                    ELSE Outcome(TRUE, "none", 0)
  ELSE IF code \in {"PageDown", "ArrowRight"}
  THEN IF index < elsLength - 1 THEN Outcome(TRUE, "display", index + 1)
                                ELSE Outcome(TRUE, "none", 0)
  ELSE Outcome(TRUE, "clear", 0)

HandleKeyDown(code, index) ==
  IF code \in {"PageUp", "ArrowLeft"}
  THEN IF index > 0 THEN Outcome(TRUE, "display", index - 1)
                    ELSE Outcome(TRUE, "none", 0)
  ELSE IF code \in {"PageDown", "ArrowRight"}
  THEN IF index < elsLength - 1 THEN Outcome(TRUE, "display", index + 1)
                                ELSE Outcome(TRUE, "none", 0)
  ELSE IF code = "Escape" THEN Outcome(TRUE, "clear", 0)
  ELSE Outcome(FALSE, "none", 0)

\* handleWheel that does not look at ctrlKey.
HandleWheelNoCtrl(ctrlKey, deltaY, index) ==
  IF deltaY < 0
  THEN IF index > 0 THEN Outcome(TRUE, "display", index - 1)
                    ELSE Outcome(TRUE, "none", 0)
  ELSE IF deltaY > 0
  THEN IF index < elsLength - 1 THEN Outcome(TRUE, "display", index + 1)
                                ELSE Outcome(TRUE, "none", 0)
  ELSE Outcome(TRUE, "none", 0)

HandleWheelNoBounds(ctrlKey, deltaY, index) ==
  IF ctrlKey THEN Outcome(FALSE, "none", 0)
  ELSE IF deltaY < 0 THEN Outcome(TRUE, "display", index - 1)
  ELSE IF deltaY > 0 THEN Outcome(TRUE, "display", index + 1)
  ELSE Outcome(TRUE, "none", 0)

HandleWheel(ctrlKey, deltaY, index) ==
  IF ctrlKey THEN Outcome(FALSE, "none", 0)
  ELSE IF deltaY < 0
  THEN IF index > 0 THEN Outcome(TRUE, "display", index - 1)
                    ELSE Outcome(TRUE, "none", 0)
  ELSE IF deltaY > 0
  THEN IF index < elsLength - 1 THEN Outcome(TRUE, "display", index + 1)
                                ELSE Outcome(TRUE, "none", 0)
  ELSE Outcome(TRUE, "none", 0)

\* The click listener of the overall container closes iff the click hit the
\* container itself.  The first definition closes on a click anywhere in it.
OverallClickClosesAny(className) == TRUE

OverallClickCloses(className) == className = "thumbnail-viewer-overall"

-----------------------------------------------------------------------------
(* Bookkeeping of the event being dispatched                               *)

Op(op, a, c) == [op |-> op, a |-> a, c |-> c]

Call(f, i) == [f |-> f, i |-> i]

Snapshot ==
  [body |-> body, activeElements |-> activeElements,
   currentResizeHandler |-> currentResizeHandler, listeners |-> listeners,
   hook |-> thumbnailViewerReStyle]

NewEvent(kind, key, deltaY, ctrlKey, arg) ==
  [kind |-> kind, key |-> key, deltaY |-> deltaY, ctrlKey |-> ctrlKey,
   arg |-> arg, pre |-> Snapshot, calls |-> <<>>, prevented |-> FALSE,
   preFit |-> windowFitToScreen, handled |-> <<>>]

\* The invocations a dispatch to window makes: one per listener of the type
\* that is registered when the dispatch reaches window.
Dispatch(ls, type) ==
  LET s == ListenersOf(ls, type) IN
  [k \in 1..Len(s) |-> Op(s[k].fn, s[k].id, type)]

\* The statements of display() after the elements are built, for overlay id.
DisplayStepsNoClear(id) ==
  <<Op("d_mount", id, ""), Op("d_append", id, ""),
    Op("d_push", id, ""), Op("d_restyle", id, ""), Op("d_listen", id, ""),
    Op("d_show", id, ""), Op("d_nav", id, "")>>

DisplayStepsNoPush(id) ==
  <<Op("d_mount", id, ""), Op("d_append", id, ""), Op("d_clear", id, ""),
    Op("d_restyle", id, ""), Op("d_listen", id, ""),
    Op("d_show", id, ""), Op("d_nav", id, "")>>

\* display that shows the new overlay before it lays it out.
DisplayStepsShowFirst(id) ==
  <<Op("d_mount", id, ""), Op("d_append", id, ""), Op("d_clear", id, ""),
    Op("d_push", id, ""), Op("d_show", id, ""), Op("d_restyle", id, ""),
    Op("d_listen", id, ""), Op("d_nav", id, "")>>

DisplaySteps(id) ==
  <<Op("d_mount", id, ""), Op("d_append", id, ""), Op("d_clear", id, ""),
    Op("d_push", id, ""), Op("d_restyle", id, ""), Op("d_listen", id, ""),
    Op("d_show", id, ""), Op("d_nav", id, "")>>

\* window.thumbnailViewerReStyle = reStyle: the hook after display built
\* overlay id.  The first definition exports the hook only when none is set.
ExportReStyleOnce(hook, id) == IF hook = 0 THEN id ELSE hook

ExportReStyle(hook, id) == id

IsDisplayStep(o) ==
  o.op \in {"d_mount", "d_append", "d_clear", "d_push", "d_restyle",
            "d_listen", "d_show", "d_nav"}

\* An exception inside display() abandons the rest of that call.
RECURSIVE DropDisplay(_)
DropDisplay(t) ==
  IF t # <<>> /\ IsDisplayStep(Head(t)) THEN DropDisplay(Tail(t)) ELSE t

Idle == todo = <<>>

At(op) == todo # <<>> /\ Head(todo).op = op

\* The initialisation handler wires the widget iff it found thumbnails.
WiredAlways == TRUE

Wired == elsLength > 0

CanCreate == Len(ovs) < MaxOverlays

KeyCodes == {"ArrowLeft", "PageUp", "ArrowRight", "PageDown", "Escape",
             "KeyF", "KeyA"}

\* The classes of the elements of an overlay a click can hit.
ClickTargets == Mount(TRUE, TRUE) \cup {"thumbnail-viewer-overall"}

\* Some navigation listener registered on window answers this event with a
\* call of display (so the event needs room under the overlay cap).
WouldDisplay(type, code, ctrlKey, deltaY) ==
  \E l \in Range(ListenersOf(listeners, type)) :
    IF type = "keydown"
    THEN HandleKeyDown(code, ovs[l.id].index).call = "display"
    ELSE HandleWheel(ctrlKey, deltaY, ovs[l.id].index).call = "display"

-----------------------------------------------------------------------------
\* The overlay state after the DOMContentLoaded handler.
InitOverlay ==
  /\ elsLength \in 0..MaxN
  /\ ovs = <<>>
  /\ body = <<>>
  /\ activeElements = <<>>
  /\ currentResizeHandler = 0
  /\ listeners = <<>>
  /\ thumbnailViewerReStyle = 0
  /\ windowFitToScreen \in {"undefined", "true", "false"}
  /\ fitToScreen = ReadFitToScreen(windowFitToScreen)
  /\ todo = <<>>
  /\ ev = NewEvent("init", "", 0, FALSE, 0)
  /\ error = FALSE
  /\ placeholder = (elsLength = 0)

\* A page that sets none of the label options, so each has its default.
InitPage ==
  /\ showFilenames = TRUE
  /\ showFolders = TRUE
  /\ labelDisplay = AddLabelDisplay(TRUE, TRUE, FALSE)
  /\ dirDisplay = DirDisplay(TRUE)

Init ==
  /\ InitPage
  /\ scan = NoScan
  /\ layout = NoLayout
  /\ InitOverlay

-----------------------------------------------------------------------------
(* Events                                                                  *)

\* Click on thumbnail link k: preventDefault, display(k).
ThumbClick(k) ==
  /\ Idle /\ Wired /\ CanCreate
  /\ k \in 0..(elsLength - 1)
  /\ ev' = [NewEvent("click", "thumbnail-viewer", 0, FALSE, k)
              EXCEPT !.prevented = TRUE, !.calls = <<Call("display", k)>>]
  /\ todo' = <<Op("display", k, "")>>
  /\ error' = FALSE
  /\ UNCHANGED <<pageVars, pureVars, elsLength, ovs, body, activeElements,
                 currentResizeHandler, listeners, thumbnailViewerReStyle,
                 windowFitToScreen, fitToScreen>>

\* Click inside attached overlay el on the element of class cls.  The
\* target's own listener runs first; the click then bubbles to the overall
\* container's listener.
Click(el, cls) ==
  /\ Idle
  /\ el \in Range(body)
  /\ cls \in ovs[el].children \cup {"thumbnail-viewer-overall"}
  /\ cls \in {"thumbnail-viewer-prev", "thumbnail-viewer-next"} => CanCreate
  /\ LET e0 == NewEvent("click", cls, 0, FALSE, el)
         bubble == <<Op("overallClick", el, cls)>>
     IN
     CASE cls = "thumbnail-viewer-close" ->
            LET r == Cleared IN
            /\ ev' = [e0 EXCEPT !.prevented = TRUE,
                                !.calls = <<Call("clear", 0)>>]
            /\ activeElements' = r.activeElements
            /\ body' = r.body
            /\ listeners' = r.listeners
            /\ currentResizeHandler' = r.currentResizeHandler
            /\ error' = r.error
            /\ todo' = bubble
       [] cls = "thumbnail-viewer-prev" ->
            /\ ev' = [e0 EXCEPT !.prevented = TRUE,
                        !.calls = <<Call("display", ovs[el].index - 1)>>]
            /\ todo' = <<Op("display", ovs[el].index - 1, "")>> \o bubble
            /\ error' = FALSE
            /\ UNCHANGED <<activeElements, body, listeners,
                           currentResizeHandler>>
       [] cls = "thumbnail-viewer-next" ->
            /\ ev' = [e0 EXCEPT !.prevented = TRUE,
                        !.calls = <<Call("display", ovs[el].index + 1)>>]
            /\ todo' = <<Op("display", ovs[el].index + 1, "")>> \o bubble
            /\ error' = FALSE
            /\ UNCHANGED <<activeElements, body, listeners,
                           currentResizeHandler>>
       [] OTHER ->
            /\ ev' = e0
            /\ todo' = bubble
            /\ error' = FALSE
            /\ UNCHANGED <<activeElements, body, listeners,
                           currentResizeHandler>>
  /\ UNCHANGED <<pageVars, pureVars, elsLength, ovs, thumbnailViewerReStyle,
                 windowFitToScreen, fitToScreen>>

\* keydown: the document-level toggle listener runs (the event reaches
\* document before window), then the keydown listeners of window.
KeyDown(code) ==
  /\ Idle
  /\ code \in KeyCodes
  /\ CanCreate \/ ~WouldDisplay("keydown", code, FALSE, 0)
  /\ ev' = NewEvent("keydown", code, 0, FALSE, 0)
  /\ error' = FALSE
  /\ IF Wired /\ code = "KeyF"
     THEN /\ windowFitToScreen' = ToggleFitToScreen(windowFitToScreen)
          /\ IF Len(activeElements) > 0 /\ thumbnailViewerReStyle # 0
             THEN /\ fitToScreen' = ReadFitToScreen(windowFitToScreen')
                  /\ ovs' = ReStyle(ovs, thumbnailViewerReStyle,
                                    windowFitToScreen', showFilenames)
             ELSE UNCHANGED <<fitToScreen, ovs>>
     ELSE UNCHANGED <<windowFitToScreen, fitToScreen, ovs>>
  /\ todo' = Dispatch(listeners, "keydown")
  /\ UNCHANGED <<pageVars, pureVars, elsLength, body, activeElements,
                 currentResizeHandler, listeners, thumbnailViewerReStyle>>

\* keydown of H or G with Ctrl held: the document-level toggle listener
\* (Ctrl+H shows or hides the labels and re-lays out the overlay that is up,
\* Ctrl+G shows or hides the folders), then the keydown listeners of window.
KeyDownCtrl(code) ==
  /\ Idle
  /\ code \in {"KeyH", "KeyG"}
  /\ ev' = [NewEvent("keydown", code, 0, TRUE, 0) EXCEPT !.prevented = Wired]
  /\ error' = FALSE
  /\ IF Wired /\ code = "KeyH"
     THEN /\ showFilenames' = ~showFilenames
          /\ labelDisplay' = ToggleLabelDisplay(showFilenames')
          /\ IF Len(activeElements) > 0 /\ thumbnailViewerReStyle # 0
             THEN /\ fitToScreen' = ReadFitToScreen(windowFitToScreen)
                  /\ ovs' = ReStyle(ovs, thumbnailViewerReStyle,
                                    windowFitToScreen, showFilenames')
             ELSE UNCHANGED <<fitToScreen, ovs>>
     ELSE UNCHANGED <<showFilenames, labelDisplay, fitToScreen, ovs>>
  /\ IF Wired /\ code = "KeyG"
     THEN /\ showFolders' = ~showFolders
          /\ dirDisplay' = DirDisplay(showFolders')
     ELSE UNCHANGED <<showFolders, dirDisplay>>
  /\ todo' = Dispatch(listeners, "keydown")
  /\ UNCHANGED <<placeholder, pureVars, elsLength, body, activeElements,
                 currentResizeHandler, listeners, thumbnailViewerReStyle,
                 windowFitToScreen>>

Wheel(ctrlKey, deltaY) ==
  /\ Idle
  /\ ctrlKey \in BOOLEAN
  /\ deltaY \in {-1, 0, 1}
  /\ CanCreate \/ ~WouldDisplay("wheel", "", ctrlKey, deltaY)
  /\ ev' = NewEvent("wheel", "", deltaY, ctrlKey, 0)
  /\ error' = FALSE
  /\ todo' = Dispatch(listeners, "wheel")
  /\ UNCHANGED <<pageVars, pureVars, elsLength, ovs, body, activeElements,
                 currentResizeHandler, listeners, thumbnailViewerReStyle,
                 windowFitToScreen, fitToScreen>>

Resize ==
  /\ Idle
  /\ ev' = NewEvent("resize", "", 0, FALSE, 0)
  /\ error' = FALSE
  /\ todo' = Dispatch(listeners, "resize")
  /\ UNCHANGED <<pageVars, pureVars, elsLength, ovs, body, activeElements,
                 currentResizeHandler, listeners, thumbnailViewerReStyle,
                 windowFitToScreen, fitToScreen>>

\* The image of overlay id finishes loading: its load listener is reStyle.
ImageLoad(id) ==
  /\ Idle
  /\ id \in 1..Len(ovs)
  /\ ovs[id].load = "pending"
  /\ ev' = NewEvent("load", "", 0, FALSE, id)
  /\ error' = FALSE
  /\ fitToScreen' = ReadFitToScreen(windowFitToScreen)
  /\ ovs' = [ReStyle(ovs, id, windowFitToScreen, showFilenames)
              EXCEPT ![id].load = "done"]
  /\ UNCHANGED <<pageVars, pureVars, elsLength, body, activeElements,
                 currentResizeHandler, listeners, thumbnailViewerReStyle,
                 windowFitToScreen, todo>>

\* An external toggle invokes the exposed hook.
HookCall ==
  /\ Idle
  /\ thumbnailViewerReStyle # 0
  /\ ev' = NewEvent("hook", "", 0, FALSE, thumbnailViewerReStyle)
  /\ error' = FALSE
  /\ fitToScreen' = ReadFitToScreen(windowFitToScreen)
  /\ ovs' = ReStyle(ovs, thumbnailViewerReStyle, windowFitToScreen,
                  showFilenames)
  /\ UNCHANGED <<pageVars, pureVars, elsLength, body, activeElements,
                 currentResizeHandler, listeners, thumbnailViewerReStyle,
                 windowFitToScreen, todo>>

-----------------------------------------------------------------------------
(* Listener invocations                                                    *)

\* What a navigation handler's outcome does to the state.
Apply(r, rest) ==
  /\ ev' = [ev EXCEPT
              !.handled = IF At("handleKeyDown") \/ At("handleWheel")
                          THEN Append(ev.handled, Head(todo).a)
                          ELSE ev.handled,
              !.prevented = ev.prevented \/ r.prevent,
              !.calls = IF r.call = "none" THEN ev.calls
                        ELSE Append(ev.calls, Call(r.call, r.index))]
  /\ CASE r.call = "display" ->
            /\ todo' = <<Op("display", r.index, "")>> \o rest
            /\ UNCHANGED <<activeElements, body, listeners,
                           currentResizeHandler, error>>
       [] r.call = "clear" ->
            LET c == Cleared IN
            /\ activeElements' = c.activeElements
            /\ body' = c.body
            /\ listeners' = c.listeners
            /\ currentResizeHandler' = c.currentResizeHandler
            /\ error' = (error \/ c.error)
            /\ todo' = rest
       [] OTHER ->
            /\ todo' = rest
            /\ UNCHANGED <<activeElements, body, listeners,
                           currentResizeHandler, error>>

\* A listener removed while the event is being dispatched is not invoked.
StillRegistered(o) == Listener(o.c, o.op, o.a) \in Range(listeners)

InvokeKeyDown ==
  /\ At("handleKeyDown")
  /\ LET o == Head(todo) IN
     IF StillRegistered(o)
     THEN Apply(HandleKeyDown(ev.key, ovs[o.a].index), Tail(todo))
     ELSE /\ todo' = Tail(todo)
          /\ UNCHANGED <<ev, activeElements, body, listeners,
                         currentResizeHandler, error>>
  /\ UNCHANGED <<pageVars, pureVars, elsLength, ovs, thumbnailViewerReStyle,
                 windowFitToScreen, fitToScreen>>

InvokeWheel ==
  /\ At("handleWheel")
  /\ LET o == Head(todo) IN
     IF StillRegistered(o)
     THEN Apply(HandleWheel(ev.ctrlKey, ev.deltaY, ovs[o.a].index), Tail(todo))
     ELSE /\ todo' = Tail(todo)
          /\ UNCHANGED <<ev, activeElements, body, listeners,
                         currentResizeHandler, error>>
  /\ UNCHANGED <<pageVars, pureVars, elsLength, ovs, thumbnailViewerReStyle,
                 windowFitToScreen, fitToScreen>>

InvokeReStyle ==
  /\ At("reStyle")
  /\ LET o == Head(todo) IN
     IF StillRegistered(o)
     THEN /\ fitToScreen' = ReadFitToScreen(windowFitToScreen)
          /\ ovs' = ReStyle(ovs, o.a, windowFitToScreen, showFilenames)
     ELSE UNCHANGED <<fitToScreen, ovs>>
  /\ todo' = Tail(todo)
  /\ UNCHANGED <<pageVars, pureVars, elsLength, body, activeElements,
                 currentResizeHandler, listeners, thumbnailViewerReStyle,
                 windowFitToScreen, ev, error>>

\* The click listener getOverall put on the container of overlay o.a; the
\* click's target has class o.c.
OverallClick ==
  /\ At("overallClick")
  /\ LET o == Head(todo) IN
     IF OverallClickCloses(o.c)
     THEN Apply(Outcome(FALSE, "clear", 0), Tail(todo))
     ELSE Apply(Outcome(FALSE, "none", 0), Tail(todo))
  /\ UNCHANGED <<pageVars, pureVars, elsLength, ovs, thumbnailViewerReStyle,
                 windowFitToScreen, fitToScreen>>

-----------------------------------------------------------------------------
(* display(index), statement group by statement group                      *)

\* var element = els[index]; var url = element.href; ... the builders;
\* window.thumbnailViewerReStyle = reStyle.  els[index] is undefined for an
\* index outside 0..els.length-1 and reading .href of it throws.
DisplayBuild ==
  /\ At("display")
  /\ LET index == Head(todo).a IN
     IF index \in 0..(elsLength - 1)
     THEN /\ ovs' = Append(ovs, NewOverlay(index))
          /\ thumbnailViewerReStyle' =
               ExportReStyle(thumbnailViewerReStyle, Len(ovs) + 1)
          /\ todo' = DisplaySteps(Len(ovs) + 1) \o Tail(todo)
          /\ UNCHANGED error
     ELSE /\ error' = TRUE
          /\ todo' = Tail(todo)
          /\ UNCHANGED <<ovs, thumbnailViewerReStyle>>
  /\ UNCHANGED <<pageVars, pureVars, elsLength, body, activeElements,
                 currentResizeHandler, listeners, windowFitToScreen,
                 fitToScreen, ev>>

\* mount(...); hide(overall);
DisplayMount ==
  /\ At("d_mount")
  /\ LET id == Head(todo).a IN
     ovs' = [ovs EXCEPT ![id].children = Mount(ovs[id].prev, ovs[id].next),
                        ![id].visibility = "hidden"]
  /\ todo' = Tail(todo)
  /\ UNCHANGED <<pageVars, pureVars, elsLength, body, activeElements,
                 currentResizeHandler, listeners, thumbnailViewerReStyle,
                 windowFitToScreen, fitToScreen, ev, error>>

\* document.body.appendChild(overall);
DisplayAppend ==
  /\ At("d_append")
  /\ body' = Append(body, Head(todo).a)
  /\ todo' = Tail(todo)
  /\ UNCHANGED <<pageVars, pureVars, elsLength, ovs, activeElements,
                 currentResizeHandler, listeners, thumbnailViewerReStyle,
                 windowFitToScreen, fitToScreen, ev, error>>

\* clearActiveElements();
DisplayClear ==
  /\ At("d_clear")
  /\ LET r == Cleared IN
     /\ activeElements' = r.activeElements
     /\ body' = r.body
     /\ listeners' = r.listeners
     /\ currentResizeHandler' = r.currentResizeHandler
     /\ error' = (error \/ r.error)
     /\ todo' = IF r.error THEN DropDisplay(Tail(todo)) ELSE Tail(todo)
  /\ UNCHANGED <<pageVars, pureVars, elsLength, ovs, thumbnailViewerReStyle,
                 windowFitToScreen, fitToScreen, ev>>

\* activeElements.push(overall);
DisplayPush ==
  /\ At("d_push")
  /\ activeElements' = Append(activeElements, Head(todo).a)
  /\ todo' = Tail(todo)
  /\ UNCHANGED <<pageVars, pureVars, elsLength, ovs, body,
                 currentResizeHandler, listeners, thumbnailViewerReStyle,
                 windowFitToScreen, fitToScreen, ev, error>>

\* reStyle();
DisplayReStyle ==
  /\ At("d_restyle")
  /\ fitToScreen' = ReadFitToScreen(windowFitToScreen)
  /\ ovs' = ReStyle(ovs, Head(todo).a, windowFitToScreen,
                  showFilenames)
  /\ todo' = Tail(todo)
  /\ UNCHANGED <<pageVars, pureVars, elsLength, body, activeElements,
                 currentResizeHandler, listeners, thumbnailViewerReStyle,
                 windowFitToScreen, ev, error>>

\* image.addEventListener('load', reStyle); currentResizeHandler = reStyle;
\* window.addEventListener('resize', reStyle);
DisplayListen ==
  /\ At("d_listen")
  /\ LET id == Head(todo).a IN
     /\ ovs' = [ovs EXCEPT ![id].load = "pending"]
     /\ currentResizeHandler' = id
     /\ listeners' = AddEventListener(listeners,
                                      Listener("resize", "reStyle", id))
  /\ todo' = Tail(todo)
  /\ UNCHANGED <<pageVars, pureVars, elsLength, body, activeElements,
                 thumbnailViewerReStyle, windowFitToScreen, fitToScreen, ev,
                 error>>

\* show(overall);
DisplayShow ==
  /\ At("d_show")
  /\ ovs' = [ovs EXCEPT ![Head(todo).a].visibility = "visible"]
  /\ todo' = Tail(todo)
  /\ UNCHANGED <<pageVars, pureVars, elsLength, body, activeElements,
                 currentResizeHandler, listeners, thumbnailViewerReStyle,
                 windowFitToScreen, fitToScreen, ev, error>>

\* The listener invocations still pending for the event being dispatched,
\* after display has added the navigation listeners of overlay id to window.
\* A dispatch invokes the listeners that were registered when it reached
\* window, so the pending ones stay as they are.  The first definition is a
\* dispatch that walks the live list and so reaches the added listeners too.
DispatchAfterAddLive(pending, id) ==
  pending \o (CASE ev.kind = "keydown" ->
                      <<Op("handleKeyDown", id, "keydown")>>
                 [] ev.kind = "wheel" -> <<Op("handleWheel", id, "wheel")>>
                 [] OTHER -> <<>>)

DispatchAfterAdd(pending, id) == pending

\* window.addEventListener('keydown', handleKeyDown);
\* window.addEventListener('wheel', handleWheel, { passive: false });
\* overall._cleanupNav = function() { ... };
DisplayNav ==
  /\ At("d_nav")
  /\ LET id == Head(todo).a IN
     /\ listeners' = AddEventListener(
                       AddEventListener(listeners,
                                        Listener("keydown", "handleKeyDown", id)),
                       Listener("wheel", "handleWheel", id))
     /\ ovs' = [ovs EXCEPT ![id].cleanupNav = TRUE]
     /\ todo' = DispatchAfterAdd(Tail(todo), id)
  /\ UNCHANGED <<pageVars, pureVars, elsLength, body, activeElements,
                 currentResizeHandler, thumbnailViewerReStyle,
                 windowFitToScreen, fitToScreen, ev, error>>

-----------------------------------------------------------------------------
Next ==
  \/ \E k \in 0..(MaxN - 1) : ThumbClick(k)
  \/ \E el \in 1..MaxOverlays, cls \in ClickTargets : Click(el, cls)
  \/ \E code \in KeyCodes : KeyDown(code)
  \/ \E ctrlKey \in BOOLEAN, deltaY \in {-1, 0, 1} : Wheel(ctrlKey, deltaY)
  \/ Resize
  \/ \E id \in 1..MaxOverlays : ImageLoad(id)
  \/ HookCall
  \/ InvokeKeyDown
  \/ InvokeWheel
  \/ InvokeReStyle
  \/ OverallClick
  \/ DisplayBuild
  \/ DisplayMount
  \/ DisplayAppend
  \/ DisplayClear
  \/ DisplayPush
  \/ DisplayReStyle
  \/ DisplayListen
  \/ DisplayShow
  \/ DisplayNav

Spec == Init /\ [][Next]_vars

\* A page that may set window.show_filenames, window.show_folders,
\* window.name_under_thumbs and window.truncate_names before the handler
\* runs, and that has at least one label.
InitLabels ==
  /\ showFilenames \in BOOLEAN
  /\ showFolders \in BOOLEAN
  /\ \E under \in BOOLEAN, truncate \in BOOLEAN :
       labelDisplay = AddLabelDisplay(showFilenames, under, truncate)
  /\ dirDisplay = DirDisplay(showFolders)
  /\ scan = NoScan
  /\ layout = NoLayout
  /\ InitOverlay

NextLabels ==
  \/ Next
  \/ \E code \in {"KeyH", "KeyG"} : KeyDownCtrl(code)

SpecLabels == InitLabels /\ [][NextLabels]_vars

\* A page with any label options and a single thumbnail, under every event.
InitToggles ==
  /\ elsLength = 1
  /\ InitLabels

SpecToggles == InitToggles /\ [][NextLabels]_vars

\* The scan of one thumbnail link of a page with default options: any href
\* of up to MaxHref characters or none, with or without an img, with or
\* without alt text.
InitScan ==
  /\ \E hasImg \in BOOLEAN, hasHref \in BOOLEAN, href \in Strs(MaxHref),
        alt \in {<<>>, <<"s">>, <<"s", "/">>} :
       /\ ~hasImg => alt = <<>>
       /\ ~hasHref => href = <<>>
       /\ scan = [NoScan EXCEPT !.hasImg = hasImg, !.alt = alt,
                                !.hasHref = hasHref, !.href = href]
  /\ layout = NoLayout
  /\ elsLength = 1
  /\ windowFitToScreen = "undefined"
  /\ InitPage
  /\ InitOverlay

\* One pass of the scan loop's body.
ScanThumbnail ==
  /\ ~scan.done
  /\ LET r == LabelName(scan.hasImg, scan.alt, scan.hasHref, scan.href) IN
     scan' = [scan EXCEPT !.label = r.label, !.added = r.added,
                          !.thrown = r.thrown, !.done = TRUE]
  /\ UNCHANGED <<pageVars, layout, elsLength, ovs, body, activeElements,
                 currentResizeHandler, listeners, thumbnailViewerReStyle,
                 windowFitToScreen, fitToScreen, todo, ev, error>>

NextScan == ScanThumbnail

SpecScan == InitScan /\ [][NextScan]_vars

\* The viewports, images and options one overlay is laid out with, the
\* viewport metrics in nans being NaN.
StyleInputsWith(nans) ==
  [innerWidth : {100 * k : k \in 0..MaxViewport},
   innerHeight : {50} \cup {80 + 100 * k : k \in 0..MaxViewport},
   naturalWidth : {100 * k : k \in 0..MaxNatural},
   naturalHeight : {100 * k : k \in 0..MaxNatural},
   devicePixelRatio : {1, 2},
   fit : BOOLEAN, show : BOOLEAN, prev : BOOLEAN, next : BOOLEAN,
   nan : nans]

\* The inputs of a window whose innerWidth and innerHeight are numbers.
StyleInputs == StyleInputsWith({{}})

\* An overlay just built, not yet laid out, on a page with one thumbnail.
InitStyle ==
  /\ \E in \in StyleInputs :
       layout = [in |-> in, st |-> NoStyle, writes |-> NoStyle,
                 prevSt |-> NoStyle, prevWrites |-> NoStyle,
                 passes |-> 0, toggles |-> 0]
  /\ scan = NoScan
  /\ elsLength = 1
  /\ windowFitToScreen = "undefined"
  /\ InitPage
  /\ InitOverlay

\* One call of reStyle for the overlay whose inputs are now in.
Pass(l, in) ==
  LET w == StyleWrites(in) IN
  [l EXCEPT !.in = in, !.prevSt = l.st, !.prevWrites = l.writes,
            !.writes = w, !.st = Assign(l.st, w)]

\* reStyle called with nothing changed since the pass before (the first
\* pass of display, then an image load, the hook, a resize event that left
\* the size as it was).
StylePass ==
  /\ layout.passes < MaxPasses
  /\ layout' = [Pass(layout, layout.in) EXCEPT !.passes = layout.passes + 1]
  /\ UNCHANGED <<pageVars, scan, elsLength, ovs, body, activeElements,
                 currentResizeHandler, listeners, thumbnailViewerReStyle,
                 windowFitToScreen, fitToScreen, todo, ev, error>>

\* The F key: the mode is switched and the overlay laid out again.
StyleToggleFit ==
  /\ layout.passes > 0
  /\ layout.toggles < MaxToggles
  /\ layout' = [Pass(layout, [layout.in EXCEPT !.fit = ~layout.in.fit])
                 EXCEPT !.passes = 1, !.toggles = layout.toggles + 1]
  /\ UNCHANGED <<pageVars, scan, elsLength, ovs, body, activeElements,
                 currentResizeHandler, listeners, thumbnailViewerReStyle,
                 windowFitToScreen, fitToScreen, todo, ev, error>>

\* Ctrl+H: the caption is shown or hidden and the overlay laid out again.
StyleToggleShow ==
  /\ layout.passes > 0
  /\ layout.toggles < MaxToggles
  /\ layout' = [Pass(layout, [layout.in EXCEPT !.show = ~layout.in.show])
                 EXCEPT !.passes = 1, !.toggles = layout.toggles + 1]
  /\ UNCHANGED <<pageVars, scan, elsLength, ovs, body, activeElements,
                 currentResizeHandler, listeners, thumbnailViewerReStyle,
                 windowFitToScreen, fitToScreen, todo, ev, error>>

NextStyle == StylePass \/ StyleToggleFit \/ StyleToggleShow

SpecStyle == InitStyle /\ [][NextStyle]_vars

\* An overlay just built in a window whose innerWidth, innerHeight or both
\* may have been replaced by NaN.
InitStyleNaN ==
  /\ \E in \in StyleInputsWith(SUBSET {"innerWidth", "innerHeight"}) :
       layout = [in |-> in, st |-> NoStyle, writes |-> NoStyle,
                 prevSt |-> NoStyle, prevWrites |-> NoStyle,
                 passes |-> 0, toggles |-> 0]
  /\ scan = NoScan
  /\ elsLength = 1
  /\ windowFitToScreen = "undefined"
  /\ InitPage
  /\ InitOverlay

SpecStyleNaN == InitStyleNaN /\ [][NextStyle]_vars

\* display(index) called directly with any index, valid or not: the contract
\* of the function itself, whatever its callers check.
DisplayCall(index) ==
  /\ Idle /\ Wired
  /\ index \in -1..elsLength
  /\ index \in 0..(elsLength - 1) => CanCreate
  /\ ev' = [NewEvent("call", "display", 0, FALSE, index)
              EXCEPT !.calls = <<Call("display", index)>>]
  /\ todo' = <<Op("display", index, "")>>
  /\ error' = FALSE
  /\ UNCHANGED <<pageVars, pureVars, elsLength, ovs, body, activeElements,
                 currentResizeHandler, listeners, thumbnailViewerReStyle,
                 windowFitToScreen, fitToScreen>>

NextCall ==
  \/ Next
  \/ \E index \in -1..MaxN : DisplayCall(index)

SpecCall == Init /\ [][NextCall]_vars

-----------------------------------------------------------------------------
(* Vocabulary of the properties                                            *)

\* Quiescent: between two events, no listener is running.
Quiescent == todo = <<>>

\* The three window listeners display registers for overlay id.
OverlayListeners(id) ==
  {Listener("resize", "reStyle", id),
   Listener("keydown", "handleKeyDown", id),
   Listener("wheel", "handleWheel", id)}

\* A snapshot in which nothing of any overlay is left.
ClosedIn(s) ==
  /\ s.body = <<>>
  /\ s.activeElements = <<>>
  /\ s.currentResizeHandler = 0
  /\ s.listeners = <<>>

\* A snapshot in which overlay id, and only it, is up: its node is the one
\* overlay node attached, and window carries its three listeners, once each.
OpenIn(s, id) ==
  /\ s.body = <<id>>
  /\ s.activeElements = <<id>>
  /\ s.currentResizeHandler = id
  /\ Len(s.listeners) = 3
  /\ Range(s.listeners) = OverlayListeners(id)

Closed == ClosedIn(Snapshot)

\* Open(i): the overlay of thumbnail i is up.
Open(i) ==
  \E id \in 1..Len(ovs) : OpenIn(Snapshot, id) /\ ovs[id].index = i

\* The state the event in ev started from was Open(i) / Closed.
PreOpen(i) ==
  \E id \in 1..Len(ovs) : OpenIn(ev.pre, id) /\ ovs[id].index = i

PreClosed == ClosedIn(ev.pre)

\* Nothing of the overlay state differs from what it was when the event began.
Untouched == Snapshot = ev.pre

\* The event reached an overlay that was up for some thumbnail.
PreOpenAny == \E i \in 0..(elsLength - 1) : PreOpen(i)

Called(f) == \E k \in 1..Len(ev.calls) : ev.calls[k].f = f

IsKey(codes) == ev.kind = "keydown" /\ ev.key \in codes

IsClick(cls) == ev.kind = "click" /\ ev.key = cls

-----------------------------------------------------------------------------
(* C1 .. C10                                                               *)

\* C1: display(i) followed by a close (a call of clearActiveElements from a
\* close action) leaves no overlay node attached to document.body,
\* activeElements empty, currentResizeHandler null and no resize, keydown or
\* wheel listener of display on window, and raises nothing.
C1_DisplayThenCloseLeavesNothing ==
  (Quiescent /\ Called("clear") /\ ev.pre.activeElements # <<>>)
    => (Closed /\ error = FALSE)

\* C1 witness: the overlay of the last of three thumbnails was up and a close
\* action has run.
C1_Witness ==
  /\ Quiescent /\ Called("clear")
  /\ elsLength = 3 /\ PreOpen(2)
  /\ Closed

\* C2: display(j) called while the overlay display(i) built is up ends with
\* exactly one overlay node attached, the new one built for j, and exactly
\* one resize, one keydown and one wheel listener on window, all of the new
\* overlay; nothing of i's overlay remains.
C2_DisplayAfterDisplay ==
  \A i, j \in 0..(elsLength - 1) :
    (Quiescent /\ PreOpen(i) /\ ev.calls = <<Call("display", j)>>)
      => /\ error = FALSE
         /\ \E id \in 1..Len(ovs) :
              /\ OpenIn(Snapshot, id)
              /\ ovs[id].index = j
              /\ id \notin Range(ev.pre.body)
              /\ \A l \in Range(listeners) : l.id = id

\* C2 witness: thumbnail 2 was up, thumbnail 0 was asked for, and its
\* overlay is the one that is up now.
C2_Witness ==
  /\ Quiescent /\ PreOpen(2)
  /\ ev.calls = <<Call("display", 0)>>
  /\ Open(0)

\* Overlays that were fully set up and are no longer the active one when the
\* event in ev began.
TornDownBefore ==
  {id \in 1..Len(ovs) : ovs[id].cleanupNav
                         /\ id \notin Range(ev.pre.activeElements)
                         /\ id \notin Range(activeElements)}

\* C3: after an overlay has been torn down, a keydown or wheel event never
\* acts for it: with no overlay up the event calls neither display nor
\* clearActiveElements and changes nothing; with j's overlay up every display
\* call it makes is for j-1 or j+1.
C3_NoStaleNavigation ==
  (ev.kind \in {"keydown", "wheel"})
    => /\ PreClosed => (ev.calls = <<>> /\ Untouched /\ ~ev.prevented)
       /\ \A j \in 0..(elsLength - 1) :
            PreOpen(j) =>
              \A k \in 1..Len(ev.calls) :
                ev.calls[k].f = "display" => ev.calls[k].i \in {j - 1, j + 1}
       /\ PreClosed \/ PreOpenAny

\* C3 witness: the overlay of thumbnail 2 was replaced by the one of
\* thumbnail 1, which was closed; ArrowLeft then arrives and does nothing.
C3_Witness ==
  /\ Quiescent /\ IsKey({"ArrowLeft"})
  /\ Len(ovs) = 2 /\ ovs[1].index = 2 /\ ovs[2].index = 1
  /\ TornDownBefore = {1, 2}
  /\ PreClosed /\ Closed /\ ev.calls = <<>>

C5_CloseActions ==
  (Quiescent /\ PreOpenAny
     /\ (IsKey({"Escape"}) \/ IsClick("thumbnail-viewer-overall")
           \/ IsClick("thumbnail-viewer-close")))
    => (Closed /\ error = FALSE)

\* C5 witness: Escape arrived while the overlay of thumbnail 1 was up.
C5_Witness ==
  /\ Quiescent /\ IsKey({"Escape"}) /\ PreOpen(1) /\ Closed

\* The overlay that is up now was built during the event in ev.
NewlyOpen(i) ==
  \E id \in 1..Len(ovs) :
    OpenIn(Snapshot, id) /\ ovs[id].index = i /\ id \notin Range(ev.pre.body)

\* C6: while Open(i), ArrowLeft, PageUp or a click on the previous control
\* lead to Open(i-1) when i > 0; ArrowRight, PageDown or a click on the next
\* control lead to Open(i+1) when i < n-1; ArrowLeft/PageUp at 0 and
\* ArrowRight/PageDown at n-1 leave Open(i) as it is.
C6_KeyAndControlNavigation ==
  \A i \in 0..(elsLength - 1) :
    (Quiescent /\ PreOpen(i)) =>
      /\ (IsKey({"ArrowLeft", "PageUp"}) \/ IsClick("thumbnail-viewer-prev"))
           => IF i > 0 THEN NewlyOpen(i - 1) /\ error = FALSE
                       ELSE Untouched /\ Open(i) /\ error = FALSE
                            /\ ev.kind = "keydown"
      /\ (IsKey({"ArrowRight", "PageDown"}) \/ IsClick("thumbnail-viewer-next"))
           => IF i < elsLength - 1 THEN NewlyOpen(i + 1) /\ error = FALSE
                                   ELSE Untouched /\ Open(i) /\ error = FALSE
                                        /\ ev.kind = "keydown"

\* C6 witness: PageDown moved from thumbnail 1 to thumbnail 2 of three.
C6_Witness ==
  /\ Quiescent /\ IsKey({"PageDown"})
  /\ elsLength = 3 /\ PreOpen(1) /\ NewlyOpen(2)

\* C7: while Open(i), a wheel event without ctrlKey goes to i-1 when
\* deltaY < 0 and i > 0, to i+1 when deltaY > 0 and i < n-1, and otherwise
\* leaves Open(i) as it is, and its default action is prevented; with ctrlKey
\* held it is ignored: no call, nothing changed, default not prevented.
C7_WheelNavigation ==
  \A i \in 0..(elsLength - 1) :
    (Quiescent /\ PreOpen(i) /\ ev.kind = "wheel") =>
      /\ error = FALSE
      /\ IF ev.ctrlKey
         THEN ~ev.prevented /\ ev.calls = <<>> /\ Untouched
         ELSE /\ ev.prevented
              /\ IF ev.deltaY < 0 /\ i > 0 THEN NewlyOpen(i - 1)
                 ELSE IF ev.deltaY > 0 /\ i < elsLength - 1
                      THEN NewlyOpen(i + 1)
                      ELSE Untouched /\ Open(i) /\ ev.calls = <<>>

\* C7 witness: a ctrl+wheel-down on thumbnail 0 of three, which could have
\* gone to thumbnail 1, was ignored.
C7_Witness ==
  /\ Quiescent /\ ev.kind = "wheel" /\ ev.ctrlKey /\ ev.deltaY > 0
  /\ elsLength = 3 /\ PreOpen(0) /\ Open(0) /\ ~ev.prevented

\* C8: in every state Open(i) the overlay holds a previous control iff i > 0
\* and a next control iff i < n-1.
C8_ControlsPresent ==
  \A id \in 1..Len(ovs) :
    (Quiescent /\ OpenIn(Snapshot, id)) =>
      /\ ("thumbnail-viewer-prev" \in ovs[id].children) <=> (ovs[id].index > 0)
      /\ ("thumbnail-viewer-next" \in ovs[id].children)
           <=> (ovs[id].index < elsLength - 1)

\* C8 witness: the only thumbnail of the page is up, with neither control.
C8_Witness ==
  /\ Quiescent /\ elsLength = 1 /\ Open(0)
  /\ \A id \in Range(body) :
       ovs[id].children \cap {"thumbnail-viewer-prev", "thumbnail-viewer-next"} = {}

\* C9: display(index) with index outside 0..n-1 raises nothing and leaves
\* the overlay state, the attached nodes, the hook and the listeners as
\* they were.
C9_OutOfRangeIsSilent ==
  (Quiescent /\ ev.kind = "call" /\ ev.arg \notin 0..(elsLength - 1))
    => (error = FALSE /\ Untouched)

\* clearActiveElements applied to the result of clearActiveElements.
ClearedTwice ==
  ClearActiveElements(Cleared.activeElements, Cleared.body, Cleared.listeners,
                      Cleared.currentResizeHandler)

\* C10: clearActiveElements can be called in any state without raising; with
\* nothing active it changes nothing (a node display has just attached
\* stays), and a second call right after a first changes nothing more.  The
\* call display makes from Closed is such a call.
C10_ClearIdempotent ==
  /\ Cleared.error = FALSE
  /\ ClearedTwice = Cleared
  /\ (activeElements = <<>> /\ currentResizeHandler = 0) =>
       Cleared = [activeElements |-> activeElements, body |-> body,
                  listeners |-> listeners,
                  currentResizeHandler |-> currentResizeHandler,
                  error |-> FALSE]
  /\ (At("d_push") /\ PreClosed) =>
       /\ body = <<Head(todo).a>>
       /\ activeElements = <<>> /\ currentResizeHandler = 0
       /\ listeners = <<>> /\ error = FALSE

\* C10 witness: an overlay was closed, and display, called from Closed, has
\* just run clearActiveElements again.
C10_Witness ==
  /\ At("d_push") /\ PreClosed
  /\ Len(ovs) = 2 /\ ovs[1].cleanupNav

-----------------------------------------------------------------------------
(* C11 .. C20                                                              *)

\* The display calls the event in ev has made so far.
DisplayCalls == {k \in 1..Len(ev.calls) : ev.calls[k].f = "display"}

\* The layout mode a pass applies when the flag has its present value.
ModeNow == Style(ReadFitToScreen(windowFitToScreen))

\* C11: whenever an overlay is up between events, the hook
\* window.thumbnailViewerReStyle is the reStyle of the active overlay, which
\* is the one the most recent display call built and whose node is attached;
\* and a call of the hook has laid that overlay out in the mode the flag has
\* at the time of the call.
C11_HookIsActiveReStyle ==
  (Quiescent /\ activeElements # <<>>)
    => /\ thumbnailViewerReStyle = activeElements[Len(activeElements)]
       /\ thumbnailViewerReStyle = Len(ovs)
       /\ thumbnailViewerReStyle \in Range(body)
       /\ ev.kind = "hook"
            => /\ ev.arg = activeElements[1]
               /\ ovs[ev.arg].mode = ModeNow
               /\ fitToScreen = ReadFitToScreen(windowFitToScreen)

\* C11 witness: the hook was called while the second overlay built is up,
\* and fit-to-screen is on.
C11_Witness ==
  /\ Quiescent /\ ev.kind = "hook"
  /\ Len(ovs) = 2 /\ activeElements = <<2>>
  /\ thumbnailViewerReStyle = 2
  /\ ovs[2].mode = "fit"

\* C12: a page without thumbnails shows the placeholder (and only such a
\* page does), and nothing is wired on it: no event ever builds or attaches
\* an overlay, registers a listener, sets the hook or leaves work pending,
\* and no keydown changes window.fitToScreen, the toggle listener not being
\* registered.
C12_NoThumbnailsNoWiring ==
  /\ placeholder <=> (elsLength = 0)
  /\ (elsLength = 0)
       => /\ Closed
          /\ ovs = <<>>
          /\ thumbnailViewerReStyle = 0
          /\ todo = <<>>
          /\ ev.calls = <<>>
          /\ windowFitToScreen = ev.preFit
          /\ fitToScreen = ReadFitToScreen(ev.preFit)
          /\ error = FALSE

\* C12 witness: F was pressed on a page without thumbnails that had set
\* window.fitToScreen to false.
C12_Witness ==
  /\ elsLength = 0 /\ placeholder
  /\ IsKey({"KeyF"})
  /\ windowFitToScreen = "false"

\* C13: on a wired page the F key flips window.fitToScreen whether or not
\* an overlay is up; between events the mode last applied to the overlay
\* that is up is the one the flag asks for; and every layout pass (the one
\* of display, a resize, an image load, the hook, the toggle itself) applies
\* the mode of the flag as it is at that pass.
C13_FitToScreenToggle ==
  /\ (Wired /\ IsKey({"KeyF"}))
       => ReadFitToScreen(windowFitToScreen) = ~ReadFitToScreen(ev.preFit)
  /\ ~IsKey({"KeyF"}) => windowFitToScreen = ev.preFit
  /\ Quiescent => \A id \in Range(activeElements) : ovs[id].mode = ModeNow
  /\ (Quiescent /\ ev.kind \in {"load", "hook"}) => ovs[ev.arg].mode = ModeNow
  /\ (Quiescent /\ ev.kind = "resize")
       => \A l \in Range(ev.pre.listeners) :
            l.type = "resize" => ovs[l.id].mode = ModeNow
  /\ At("d_listen") => ovs[Head(todo).a].mode = ModeNow

\* C13 witness: F was pressed while an overlay was up on a page that had
\* not set window.fitToScreen; the overlay is now laid out to fit the screen.
C13_Witness ==
  /\ Quiescent /\ IsKey({"KeyF"})
  /\ ev.preFit = "undefined"
  /\ PreOpenAny
  /\ activeElements # <<>>
  /\ ovs[activeElements[1]].mode = "fit"

\* C18: on a page with thumbnails no event raises an error, every display
\* call made or pending has an index in 0..els.length-1, and the index the
\* navigation listeners of a built overlay captured is the index of the
\* thumbnail whose image the overlay shows.
C18_DisplayIndexInRange ==
  /\ error = FALSE
  /\ \A k \in DisplayCalls : ev.calls[k].i \in 0..(elsLength - 1)
  /\ \A k \in 1..Len(todo) :
       todo[k].op = "display" => todo[k].a \in 0..(elsLength - 1)
  /\ \A id \in 1..Len(ovs) :
       /\ ovs[id].index \in 0..(elsLength - 1)
       /\ ovs[id].index = ovs[id].image

\* C18 witness: a wheel event at the last of three thumbnails asked for a
\* thumbnail beyond it; no display call was made and the overlay stays.
C18_Witness ==
  /\ Quiescent /\ ev.kind = "wheel" /\ ev.deltaY > 0 /\ ~ev.ctrlKey
  /\ elsLength = 3 /\ PreOpen(2) /\ Open(2)
  /\ ev.calls = <<>>
  /\ Len(ovs) = 2

\* C19: one keydown or wheel event is handled by at most one navigation
\* listener, one of an overlay that was up when the event began, and makes
\* at most one display call; delivered in Open(i) it ends in Open(i),
\* Open(i-1), Open(i+1) or, for Escape, Closed.
C19_OneStepPerEvent ==
  (ev.kind \in {"keydown", "wheel"})
    => /\ Len(ev.handled) <= 1
       /\ \A k \in 1..Len(ev.handled) :
            ev.handled[k] \in Range(ev.pre.activeElements)
       /\ Cardinality(DisplayCalls) <= 1
       /\ \A i \in 0..(elsLength - 1) :
            (Quiescent /\ PreOpen(i))
              => \/ Open(i) \/ Open(i - 1) \/ Open(i + 1)
                 \/ (Closed /\ IsKey({"Escape"}))

\* C19 witness: ArrowRight in Open(0) of three thumbnails was handled by the
\* listener of the overlay that was up, made one display call and ended in
\* Open(1), not Open(2).
C19_Witness ==
  /\ Quiescent /\ IsKey({"ArrowRight"})
  /\ elsLength = 3 /\ PreOpen(0) /\ Open(1)
  /\ ev.handled = <<1>>
  /\ ev.calls = <<Call("display", 1)>>

\* C20: between events activeElements has at most one element; the overlay
\* nodes attached are exactly its elements; currentResizeHandler is set iff
\* activeElements is not empty and is then the reStyle of that overlay,
\* registered for resize; and window has as many keydown listeners, and as
\* many wheel listeners, as activeElements has elements.
C20_QuiescentShape ==
  Quiescent
    => /\ Len(activeElements) \in {0, 1}
       /\ body = activeElements
       /\ (currentResizeHandler # 0) <=> (activeElements # <<>>)
       /\ activeElements # <<>>
            => /\ currentResizeHandler = activeElements[1]
               /\ Listener("resize", "reStyle", currentResizeHandler)
                    \in Range(listeners)
       /\ Len(ListenersOf(listeners, "resize")) = Len(activeElements)
       /\ Len(ListenersOf(listeners, "keydown")) = Len(activeElements)
       /\ Len(ListenersOf(listeners, "wheel")) = Len(activeElements)

\* C20 witness: a second overlay replaced the first by a wheel event and is
\* the one element of activeElements.
C20_Witness ==
  /\ Quiescent /\ ev.kind = "wheel"
  /\ activeElements = <<2>> /\ body = <<2>>
  /\ currentResizeHandler = 2
  /\ Len(listeners) = 3

\* A label, or the caption, is shown unless its style.display is 'none'.
Shown(display) == display # "none"

\* C14: the labels addLabel rendered, and the caption of the overlay that is
\* up between events, are shown iff window.show_filenames is true.
C14_LabelsFollowFlag ==
  /\ Shown(labelDisplay) <=> showFilenames
  /\ Quiescent
       => \A id \in Range(activeElements) :
            Shown(ovs[id].caption) <=> showFilenames

\* seg is the trailing path segment of u: what follows the last "/" of u,
\* or all of u when it has none.
IsTrailingSegment(seg, u) ==
  /\ Len(seg) <= Len(u)
  /\ seg = SubSeq(u, Len(u) - Len(seg) + 1, Len(u))
  /\ \A k \in 1..Len(seg) : seg[k] # "/"
  /\ Len(seg) < Len(u) => u[Len(u) - Len(seg)] = "/"

\* u without one trailing "/", if it has one.
IsStripped(v, u) ==
  \/ /\ u # <<>> /\ u[Len(u)] = "/" /\ u = v \o <<"/">>
  \/ /\ (u = <<>> \/ u[Len(u)] # "/") /\ v = u

RatioGreater(a, b, c, d) ==
  IF (b = 0 /\ a = 0) \/ (d = 0 /\ c = 0) THEN FALSE
  ELSE IF d = 0 THEN FALSE
  ELSE IF b = 0 THEN TRUE
  ELSE IF d > 0 THEN a * d > c * b
  ELSE a * d < c * b

\* The image of the overlay laid out is width-constrained, or
\* height-constrained to availableHeight px.
WidthConstrained ==
  /\ layout.st["image.width"] = Kw("100%")
  /\ layout.st["image.height"] = Kw("auto")

HeightConstrained(availableHeight) ==
  /\ layout.st["image.width"] = Kw("auto")
  /\ layout.st["image.height"] = Px(10 * availableHeight)

\* C15, as stated: after a pass in fit-to-screen mode the image is
\* width-constrained iff naturalWidth / naturalHeight >
\* innerWidth / (innerHeight - 80), and height-constrained otherwise.
C15_FitSelectionByRatio ==
  (layout.passes > 0 /\ layout.in.fit)
    => LET in == layout.in IN
       IF RatioGreater(in.naturalWidth, in.naturalHeight, in.innerWidth,
                       in.innerHeight - 80)
       THEN WidthConstrained
       ELSE HeightConstrained(in.innerHeight - 80)

\* C15, amended: after a pass in fit-to-screen mode the image is
\* width-constrained iff it has a natural width and height and either the
\* available height innerHeight - 80 is positive and naturalWidth /
\* naturalHeight > innerWidth / available height, or the available height
\* is not positive; it is height-constrained to the available height
\* otherwise.  Ratio 2.0 against area ratio 1.0 is width-constrained, ratios
\* 0.5 and 1.0 against it are height-constrained.
C15_FitSelection ==
  (layout.passes > 0 /\ layout.in.fit)
    => LET in == layout.in
           avail == in.innerHeight - 80
       IN
       /\ IF /\ in.naturalWidth > 0 /\ in.naturalHeight > 0
             /\ \/ avail <= 0
                \/ in.naturalWidth * avail > in.innerWidth * in.naturalHeight
          THEN WidthConstrained
          ELSE HeightConstrained(avail)
       /\ (in.innerWidth = 100 /\ in.innerHeight = 180)
            => /\ (in.naturalWidth = 200 /\ in.naturalHeight = 100)
                    => WidthConstrained
               /\ (in.naturalWidth = 100 /\ in.naturalHeight = 200)
                    => HeightConstrained(100)
               /\ (in.naturalWidth = 100 /\ in.naturalHeight = 100)
                    => HeightConstrained(100)

\* C15 witness: an image of ratio 1.0 laid out in an area of ratio 1.0 is
\* height-constrained.
C15_Witness ==
  /\ layout.passes > 0 /\ layout.in.fit
  /\ layout.in.innerWidth = 100 /\ layout.in.innerHeight = 180
  /\ layout.in.naturalWidth = 200 /\ layout.in.naturalHeight = 200
  /\ HeightConstrained(100)

-----------------------------------------------------------------------------
(* C21 .. C25                                                              *)

\* The event in ev is one of those that only lay out or toggle: a resize,
\* an image load, a call of the hook, or the key F, Ctrl+H or Ctrl+G.
IsLayoutOrToggle ==
  \/ ev.kind \in {"resize", "load", "hook"}
  \/ IsKey({"KeyF"})
  \/ (IsKey({"KeyH", "KeyG"}) /\ ev.ctrlKey)

C22_InnerClicksDoNotClose ==
  /\ (IsClick("thumbnail-viewer-container") \/ IsClick("thumbnail-viewer-image")
        \/ IsClick("thumbnail-viewer-caption"))
       => /\ Untouched
          /\ ev.calls = <<>>
          /\ \A i \in 0..(elsLength - 1) : PreOpen(i) => Open(i)
  /\ (IsClick("thumbnail-viewer-prev") \/ IsClick("thumbnail-viewer-next"))
       => /\ ~Called("clear")
          /\ Cardinality(DisplayCalls) = 1
          /\ Quiescent => ~Closed
  /\ \A i \in 0..(elsLength - 1) :
       /\ (Quiescent /\ IsClick("thumbnail-viewer-prev") /\ PreOpen(i))
            => (Open(i - 1) /\ ev.calls = <<Call("display", i - 1)>>)
       /\ (Quiescent /\ IsClick("thumbnail-viewer-next") /\ PreOpen(i))
            => (Open(i + 1) /\ ev.calls = <<Call("display", i + 1)>>)

\* C22 witness: the previous control of Open(1) was clicked, the click has
\* been through the listener of the old container, and Open(0) is the state.
C22_Witness ==
  /\ Quiescent /\ IsClick("thumbnail-viewer-prev")
  /\ elsLength = 3 /\ PreOpen(1) /\ Open(0)
  /\ ev.arg \notin Range(body)

\* C23: a step in which reStyle of an overlay that is not the active one runs
\* (the load event of its image arriving, or the hook being called, when the
\* overlay has been torn down) attaches and detaches no node, registers and
\* removes no listener, leaves activeElements, currentResizeHandler and the
\* hook as they are, builds no overlay, starts no other work and changes
\* nothing of the active overlay.
C23_StaleReStyleIsHarmless ==
  [][(/\ Idle
      /\ ev'.kind \in {"load", "hook"}
      /\ ev'.arg \notin Range(activeElements))
       => /\ body' = body
          /\ activeElements' = activeElements
          /\ currentResizeHandler' = currentResizeHandler
          /\ listeners' = listeners
          /\ thumbnailViewerReStyle' = thumbnailViewerReStyle
          /\ todo' = <<>>
          /\ error' = FALSE
          /\ Len(ovs') = Len(ovs)
          /\ \A id \in Range(activeElements) : ovs'[id] = ovs[id]]_vars

\* C23 witness: the image of the first overlay, torn down when the second
\* replaced it, has loaded while the second is up.
C23_Witness ==
  /\ Quiescent /\ ev.kind = "load"
  /\ ev.arg = 1 /\ ovs[1].load = "done"
  /\ ev.pre.activeElements = <<2>> /\ activeElements = <<2>>
  /\ ovs[2].visibility = "visible"

\* C24: after a pass of style in a window whose innerWidth or innerHeight is
\* NaN, in either mode, no property has been assigned a value computed from
\* the missing metric: the container's height, the image's max-width,
\* max-height and height, the figure's max-height and top are skipped.
C24_NumericStylesGuarded ==
  layout.passes > 0
    => /\ \A q \in DOMAIN layout.writes : layout.writes[q] # NaNPx
       /\ IsNaN(layout.in, "innerHeight")
            => DOMAIN layout.writes
                 \cap {"overall.height", "image.maxHeight", "image.height",
                       "figure.maxHeight", "figure.top"} = {}
       /\ (IsNaN(layout.in, "innerWidth") /\ ~layout.in.fit)
            => "image.maxWidth" \notin DOMAIN layout.writes

\* C25: an overlay node attached to the document has had its visibility
\* set, and is visible only if it has been laid out; the first layout pass
\* of display finds the overlay attached and hidden, and show finds it
\* laid out.
C25_HiddenUntilLaidOut ==
  /\ \A id \in Range(body) :
       /\ ovs[id].visibility \in {"hidden", "visible"}
       /\ ovs[id].visibility = "visible" => ovs[id].mode # "none"
  /\ At("d_append") => ovs[Head(todo).a].visibility = "hidden"
  /\ At("d_restyle")
       => /\ Head(todo).a \in Range(body)
          /\ ovs[Head(todo).a].visibility = "hidden"
          /\ ovs[Head(todo).a].mode = "none"
  /\ At("d_show")
       => /\ ovs[Head(todo).a].visibility = "hidden"
          /\ ovs[Head(todo).a].mode # "none"

\* C25 witness: inside display, the new overlay is attached, active and
\* laid out to fit the screen, and still hidden; show is what comes next.
C25_Witness ==
  /\ At("d_show")
  /\ Head(todo).a \in Range(body)
  /\ activeElements = <<Head(todo).a>>
  /\ ovs[Head(todo).a].visibility = "hidden"
  /\ ovs[Head(todo).a].mode = "fit"

====
